---- MODULE Spec2Model ----
(***************************************************************************)
(* ImageCaptioningApp (src/app.py): the lazy model loader with its CPU     *)
(* fallback and the caption request handler, served to several in-flight   *)
(* requests of one process.  Each worker is one thread of the serving      *)
(* layer running generate_caption; pc values are source line numbers.      *)
(* Texts are sequences of one-character strings; a fixed message literal   *)
(* of the source is one token (its non-ASCII marker written in ASCII).     *)
(***************************************************************************)
EXTENDS Integers, Sequences, FiniteSets

\* ------------------------------------------------------------------ bounds
NumWorkers == 2
MaxRequests == 3

Workers == 1..NumWorkers

\* ------------------------------------------------------- program constants
GPU == 0
CPU == -1

None == <<>>
Some(v) == <<v>>

\* message literals of generate_caption
UploadPrompt == <<"[x] Please upload an image first!">>
LoadFailureMsg == <<"[x] Failed to load AI model. This might be due to:\n* Internet connection issues\n* Insufficient memory\n* Missing dependencies\n\nPlease try restarting the application.">>
CouldNotMsg == <<"[x] Could not generate a caption for this image.">>
OutOfMemoryMsg == <<"[x] Out of memory error. Try:\n* Using a smaller image\n* Restarting the application\n* Using CPU instead of GPU">>
NetworkMsg == <<"[x] Network error. Please check your internet connection.">>
ProcessingErrorPrefix == <<"[x] Processing error: ">>
SuccessMarker == <<"[ok] ">>

OutOfMemoryNeedle == <<"o", "u", "t", " ", "o", "f", " ", "m", "e", "m", "o", "r", "y">>
ConnectionNeedle == <<"c", "o", "n", "n", "e", "c", "t", "i", "o", "n">>

\* texts of the faults Python itself raises inside the request
KeyErrorText == <<"'", "g", "e", "n", "e", "r", "a", "t", "e", "d", "_", "t", "e", "x", "t", "'">>
StripAttrErrorText == <<"n", "o", " ", "a", "t", "t", "r", "i", "b", "u", "t", "e", " ", "'", "s", "t", "r", "i", "p", "'">>
ModeAttrErrorText == <<"n", "o", " ", "a", "t", "t", "r", "i", "b", "u", "t", "e", " ", "'", "m", "o", "d", "e", "'">>
NotCallableText == <<"n", "o", "t", " ", "c", "a", "l", "l", "a", "b", "l", "e">>

\* ------------------------------------------------- inputs of the collaborators
TextCudaOOM == <<"C", "U", "D", "A", " ", "o", "u", "t", " ", "o", "f", " ", "m", "e", "m", "o", "r", "y">>
TextOOMUpper == <<"O", "u", "t", " ", "O", "f", " ", "M", "e", "m", "o", "r", "y">>
TextConnRefused == <<"C", "o", "n", "n", "e", "c", "t", "i", "o", "n", " ", "r", "e", "f", "u", "s", "e", "d">>
TextBoth == <<"c", "o", "n", "n", "e", "c", "t", "i", "o", "n", ";", " ", "O", "U", "T", " ", "o", "f", " ", "m", "e", "m", "o", "r", "y">>
TextBadImage == <<"b", "a", "d", " ", "i", "m", "a", "g", "e">>
TextNearMiss == <<"o", "u", "t", " ", "o", "f", " ", "m", "e", "m", "o", ",", " ", "c", "o", "n", "n", "e", "c", "t">>
FaultTexts == {TextOOMUpper, TextBadImage}
AllFaultTexts ==
    {TextCudaOOM, TextOOMUpper, TextConnRefused, TextBoth, TextBadImage, TextNearMiss}

CaptionDog == <<" ", " ", "a", " ", "d", "o", "g", " ", "r", "u", "n", "n", "i", "n", "g", " ", "\n">>
CaptionCat == <<"a", " ", "c", "a", "t">>
CaptionInner == <<"\t", "a", " ", " ", "c", "a", "t", "\n", "o", "n", "\r", " ">>
CaptionBlank == <<" ", "\n">>

ImageModes == {"RGB", "L"}
Picture(m) == [mode |-> m, converted |-> FALSE]
Images == {None} \cup {Some(Picture(m)) : m \in ImageModes}

Candidate(k, txt, str) == [key |-> k, text |-> txt, isStr |-> str]
Returned(v) == [kind |-> "value", val |-> v, text |-> <<>>]
Raised(txt) == [kind |-> "raise", val |-> <<>>, text |-> txt]
NullResult == [kind |-> "null", val |-> <<>>, text |-> <<>>]
NoResult == [kind |-> "unset", val |-> <<>>, text |-> <<>>]
InferOutcomes ==
    {Returned(<<>>),
     Returned(<<Candidate("generated_text", CaptionDog, TRUE)>>),
     Returned(<<Candidate("label", CaptionCat, TRUE)>>),
     Returned(<<Candidate("generated_text", <<>>, FALSE)>>)}
    \cup {Raised(txt) : txt \in FaultTexts}

\* a wider range of the inference call: several candidates, captions with
\* interior and surrounding whitespace, no result object, every fault text
Dog == Candidate("generated_text", CaptionDog, TRUE)
Cat == Candidate("generated_text", CaptionCat, TRUE)
AllInferOutcomes ==
    InferOutcomes
    \cup {NullResult,
          Returned(<<Cat, Dog>>),
          Returned(<<Dog, Cat>>),
          Returned(<<Dog, Candidate("label", CaptionCat, TRUE)>>),
          Returned(<<Candidate("generated_text", CaptionInner, TRUE)>>),
          Returned(<<Candidate("generated_text", CaptionBlank, TRUE)>>),
          Returned(<<Candidate("generated_text", <<>>, TRUE)>>)}
    \cup {Raised(txt) : txt \in AllFaultTexts}

\* ------------------------------------------------------------ pure helpers
UpperCase == <<"A", "B", "C", "D", "E", "F", "G", "H", "I", "J", "K", "L", "M",
               "N", "O", "P", "Q", "R", "S", "T", "U", "V", "W", "X", "Y", "Z">>
LowerCase == <<"a", "b", "c", "d", "e", "f", "g", "h", "i", "j", "k", "l", "m",
               "n", "o", "p", "q", "r", "s", "t", "u", "v", "w", "x", "y", "z">>

\* str.lower(), one character
LowerChar(c) ==
    IF \E i \in 1..26 : UpperCase[i] = c
    THEN LowerCase[CHOOSE i \in 1..26 : UpperCase[i] = c]
    ELSE c

\* variant: the fault text is searched as it is, without lower()
Lower_Identity(s) == s

\* str.lower()
Lower(s) == [i \in 1..Len(s) |-> LowerChar(s[i])]

\* needle in s
Contains(s, needle) ==
    \E i \in 1..(Len(s) - Len(needle) + 1) : SubSeq(s, i, i + Len(needle) - 1) = needle

Whitespace == {" ", "\t", "\n", "\r", "\f"}

RECURSIVE LStrip(_)
LStrip(s) == IF s # <<>> /\ Head(s) \in Whitespace THEN LStrip(Tail(s)) ELSE s

RECURSIVE RStrip(_)
RStrip(s) ==
    IF s # <<>> /\ s[Len(s)] \in Whitespace THEN RStrip(SubSeq(s, 1, Len(s) - 1)) ELSE s

\* variant: only the leading whitespace is removed
Strip_LeftOnly(s) == LStrip(s)

\* str.strip()
Strip(s) == RStrip(LStrip(s))

\* the except branch of generate_caption
\* variant: the connection test comes first
Classify_ConnFirst(msg) ==
    IF Contains(Lower(msg), ConnectionNeedle) THEN NetworkMsg
    ELSE IF Contains(Lower(msg), OutOfMemoryNeedle) THEN OutOfMemoryMsg
    ELSE ProcessingErrorPrefix \o msg

Classify(error_msg) ==
    IF Contains(Lower(error_msg), OutOfMemoryNeedle) THEN OutOfMemoryMsg
    ELSE IF Contains(Lower(error_msg), ConnectionNeedle) THEN NetworkMsg
    ELSE ProcessingErrorPrefix \o error_msg

\* the fault raised between the inference call and the return of the try
\* block, if any: the collaborator's own, a KeyError of
\* result[0]['generated_text'], an AttributeError of caption.strip()
ExtractFault(out) ==
    IF out.kind = "raise" THEN Some(out.text)
    ELSE IF out.kind = "value" /\ Len(out.val) > 0
    THEN LET cand == out.val[1] IN
         IF cand.key # "generated_text" THEN Some(KeyErrorText)
         ELSE IF ~cand.isStr THEN Some(StripAttrErrorText)
         ELSE None
    ELSE None

FaultSite(out) == IF out.kind = "raise" THEN "infer" ELSE "extract"

\* variant: an empty result is reported as a caption with no text
Extract_EmptyIsCaption(out) ==
    IF out.kind = "value"
    THEN SuccessMarker \o (IF Len(out.val) > 0 THEN Strip(out.val[1].text) ELSE <<>>)
    ELSE CouldNotMsg

\* result extraction of generate_caption when nothing raises
Extract(out) ==
    IF out.kind = "value" /\ Len(out.val) > 0
    THEN SuccessMarker \o Strip(out.val[1].text)
    ELSE CouldNotMsg

\* image.convert(mode)
Convert(img, m) == [mode |-> m, converted |-> TRUE]

\* pipeline(task, model, device): the handle number n, bound to device d
Handle(n, d) == [id |-> n, device |-> d]

\* variant: the validation is missing
IsMissing_Never(img) == FALSE

\* `if image is None`
IsMissing(img) == img = None

\* variant: the cache check is missing, every call constructs
IsCached_Never(p) == FALSE

\* variant: load_model reports success without looking at the handle
IsCached_Always(p) == TRUE

\* `if self.caption_pipeline is not None`
IsCached(p) == p # None

\* variant: the retry does not look at the device
ShouldFallback_Always(d) == TRUE

\* `if self.device == 0`
ShouldFallback(d) == d = GPU

\* variant: the result of load_model is ignored
LoadFailed_Ignored(l) == FALSE

\* `if not self.load_model()`
LoadFailed(l) == l # "True"

\* variant: only images with an alpha channel are converted
NeedsConvert_OnlyAlpha(m) == m = "RGBA"

\* `if image.mode != 'RGB'`
NeedsConvert(m) == m # "RGB"

\* variants: the device is never switched; it is switched before the retry
\* is known to work; a failed retry restores the GPU
DeviceAfterRetry_Keep(ok, d) == d
DeviceAfterRetry_Always(ok, d) == CPU
DeviceAfterRetry_Revert(ok, d) == IF ok THEN CPU ELSE GPU

\* self.device after the CPU retry: line 95 is reached only when the retry
\* did not raise
DeviceAfterRetry(ok, d) == IF ok THEN CPU ELSE d

\* variant: the try block of generate_caption starts after the conversion
TryCovers_NoConvert(site) == site \in {"construct", "fallback", "infer", "extract"}

\* the places a collaborator or subscript can raise that lie inside a
\* try block whose handler catches Exception
TryCovers(site) == site \in {"construct", "fallback", "convert", "infer", "extract"}

\* ------------------------------------------------------------------- state
VARIABLES
    caption_pipeline,   \* self.caption_pipeline: None or Some(handle)
    device,             \* self.device
    pc,                 \* per worker: the line it is about to execute
    image,              \* per worker: the argument of generate_caption
    loaded,             \* per worker: what load_model returned
    devArg,             \* per worker: device= of the first pipeline() call
    first,              \* per worker: outcome of the first pipeline() call
    second,             \* per worker: outcome of the CPU retry
    made,               \* per worker: the handle its load_model call stored
    passed,             \* per worker: the image handed to the inference call
    handleUsed,         \* per worker: the handle the inference call ran on
    result,             \* per worker: what the inference call produced
    response,           \* per worker: the string generate_caption returns
    escaped,            \* per worker: an exception left generate_caption
    error_msg,          \* per worker: str(e) in the except branch
    attempts,           \* per worker: pipeline() calls of this request
    converts,           \* per worker: image.convert calls of this request
    infers,             \* per worker: inference calls of this request
    constructCalls,     \* pipeline() calls of the process
    built,              \* handles pipeline() has returned
    failures,           \* pipeline() calls that raised
    requests            \* generate_caption calls of the process

shared == <<caption_pipeline, device>>
locals == <<image, loaded, devArg, first, second, made, passed, handleUsed,
            result, response, escaped, error_msg, attempts, converts, infers>>
counters == <<constructCalls, built, failures, requests>>
vars == <<shared, pc, locals, counters>>

\* __init__ and _get_device: no handle, the device torch reports
Init ==
    /\ caption_pipeline = None
    /\ device \in {GPU, CPU}
    /\ pc = [t \in Workers |-> "idle"]
    /\ image = [t \in Workers |-> None]
    /\ loaded = [t \in Workers |-> "unset"]
    /\ devArg = [t \in Workers |-> CPU]
    /\ first = [t \in Workers |-> "none"]
    /\ second = [t \in Workers |-> "none"]
    /\ made = [t \in Workers |-> None]
    /\ passed = [t \in Workers |-> None]
    /\ handleUsed = [t \in Workers |-> None]
    /\ result = [t \in Workers |-> NoResult]
    /\ response = [t \in Workers |-> <<>>]
    /\ escaped = [t \in Workers |-> FALSE]
    /\ error_msg = [t \in Workers |-> None]
    /\ attempts = [t \in Workers |-> 0]
    /\ converts = [t \in Workers |-> 0]
    /\ infers = [t \in Workers |-> 0]
    /\ constructCalls = 0
    /\ built = 0
    /\ failures = 0
    /\ requests = 0

\* ----------------------------------------------------------------- actions
\* The serving layer calls generate_caption(img) on its first free worker
\* thread: input validation, then the call of load_model up to its cache
\* check.
Submit(t, img) ==
    /\ pc[t] = "idle"
    /\ \A u \in Workers : u < t => pc[u] # "idle"
    /\ requests < MaxRequests
    /\ requests' = requests + 1
    /\ image' = [image EXCEPT ![t] = img]
    /\ IF IsMissing(img)
       THEN /\ response' = [response EXCEPT ![t] = UploadPrompt]
            /\ pc' = [pc EXCEPT ![t] = "done"]
            /\ loaded' = loaded
       ELSE IF IsCached(caption_pipeline)
       THEN /\ loaded' = [loaded EXCEPT ![t] = "True"]
            /\ pc' = [pc EXCEPT ![t] = "L118"]
            /\ response' = response
       ELSE /\ pc' = [pc EXCEPT ![t] = "L74"]
            /\ UNCHANGED <<loaded, response>>
    /\ UNCHANGED <<shared, devArg, first, second, made, passed, handleUsed,
                   result, escaped, error_msg, attempts, converts, infers, constructCalls,
                   built, failures>>

\* load_model: pipeline(..., device=self.device) is entered
ConstructBegin(t) ==
    /\ pc[t] = "L74"
    /\ devArg' = [devArg EXCEPT ![t] = device]
    /\ first' = [first EXCEPT ![t] = "running"]
    /\ attempts' = [attempts EXCEPT ![t] = @ + 1]
    /\ constructCalls' = constructCalls + 1
    /\ pc' = [pc EXCEPT ![t] = "L74w"]
    /\ UNCHANGED <<shared, image, loaded, second, made, passed, handleUsed, result,
                   response, escaped, error_msg, converts, infers, built, failures, requests>>

\* load_model: pipeline() returns, the handle is stored, return True
ConstructOk(t) ==
    /\ pc[t] = "L74w"
    /\ built' = built + 1
    /\ caption_pipeline' = Some(Handle(built + 1, devArg[t]))
    /\ made' = [made EXCEPT ![t] = Some(Handle(built + 1, devArg[t]))]
    /\ first' = [first EXCEPT ![t] = "ok"]
    /\ loaded' = [loaded EXCEPT ![t] = "True"]
    /\ pc' = [pc EXCEPT ![t] = "L118"]
    /\ UNCHANGED <<device, image, devArg, second, passed, handleUsed, result,
                   response, escaped, error_msg, attempts, converts, infers, constructCalls,
                   failures, requests>>

\* load_model: pipeline() raises.  The except branch enters the CPU
\* pipeline(..., device=-1) if self.device is the GPU, else returns False.
ConstructFail(t) ==
    /\ pc[t] = "L74w"
    /\ failures' = failures + 1
    /\ first' = [first EXCEPT ![t] = "fail"]
    /\ IF ~TryCovers("construct")
       THEN /\ pc' = [pc EXCEPT ![t] = "done"]
            /\ escaped' = [escaped EXCEPT ![t] = TRUE]
            /\ UNCHANGED <<loaded, second, attempts, constructCalls, error_msg>>
       ELSE IF ShouldFallback(device)
       THEN /\ second' = [second EXCEPT ![t] = "running"]
            /\ attempts' = [attempts EXCEPT ![t] = @ + 1]
            /\ constructCalls' = constructCalls + 1
            /\ pc' = [pc EXCEPT ![t] = "L90w"]
            /\ UNCHANGED <<loaded, escaped, error_msg>>
       ELSE /\ loaded' = [loaded EXCEPT ![t] = "False"]
            /\ pc' = [pc EXCEPT ![t] = "L118"]
            /\ UNCHANGED <<second, attempts, constructCalls, escaped, error_msg>>
    /\ UNCHANGED <<shared, image, devArg, made, passed, handleUsed, result,
                   response, converts, infers, built, requests>>

\* load_model: the CPU pipeline() returns and the handle is stored
FallbackOk(t) ==
    /\ pc[t] = "L90w"
    /\ built' = built + 1
    /\ caption_pipeline' = Some(Handle(built + 1, CPU))
    /\ made' = [made EXCEPT ![t] = Some(Handle(built + 1, CPU))]
    /\ second' = [second EXCEPT ![t] = "ok"]
    /\ pc' = [pc EXCEPT ![t] = "L95"]
    /\ UNCHANGED <<device, image, loaded, devArg, first, passed, handleUsed,
                   result, response, escaped, error_msg, attempts, converts, infers,
                   constructCalls, failures, requests>>

\* load_model: the CPU pipeline() raises; return False
FallbackFail(t) ==
    /\ pc[t] = "L90w"
    /\ failures' = failures + 1
    /\ second' = [second EXCEPT ![t] = "fail"]
    /\ device' = DeviceAfterRetry(FALSE, device)
    /\ error_msg' = error_msg
    /\ IF TryCovers("fallback")
       THEN /\ pc' = [pc EXCEPT ![t] = "L118"]
            /\ loaded' = [loaded EXCEPT ![t] = "False"]
            /\ escaped' = escaped
       ELSE /\ pc' = [pc EXCEPT ![t] = "done"]
            /\ loaded' = loaded
            /\ escaped' = [escaped EXCEPT ![t] = TRUE]
    /\ UNCHANGED <<caption_pipeline, image, devArg, first, made, passed,
                   handleUsed, result, response, attempts, converts, infers,
                   constructCalls, built, requests>>

\* load_model: self.device = -1 after the CPU handle is stored; return True
SetDevice(t) ==
    /\ pc[t] = "L95"
    /\ device' = DeviceAfterRetry(TRUE, device)
    /\ loaded' = [loaded EXCEPT ![t] = "True"]
    /\ pc' = [pc EXCEPT ![t] = "L118"]
    /\ UNCHANGED <<caption_pipeline, image, devArg, first, second, made, passed,
                   handleUsed, result, response, escaped, error_msg, attempts, converts,
                   infers, counters>>

\* load_model has returned: its frame, and the count of its attempts, go
LeaveLoadModel(t) ==
    /\ devArg' = [devArg EXCEPT ![t] = CPU]
    /\ first' = [first EXCEPT ![t] = "none"]
    /\ second' = [second EXCEPT ![t] = "none"]
    /\ made' = [made EXCEPT ![t] = None]
    /\ attempts' = [attempts EXCEPT ![t] = 0]

\* a fault with text txt raised at `site` of generate_caption by worker t:
\* classified by the except branch when the try block covers the site
Fault(t, site, txt) ==
    /\ pc' = [pc EXCEPT ![t] = "done"]
    /\ IF TryCovers(site)
       THEN /\ error_msg' = [error_msg EXCEPT ![t] = Some(txt)]
            /\ response' = [response EXCEPT ![t] = Classify(txt)]
            /\ escaped' = escaped
       ELSE /\ error_msg' = error_msg
            /\ response' = response
            /\ escaped' = [escaped EXCEPT ![t] = TRUE]

\* variant: after a failed load_model the request calls load_model again
LoadFailedReturn_Retry(t) ==
    /\ pc[t] = "L118"
    /\ LoadFailed(loaded[t])
    /\ loaded' = [loaded EXCEPT ![t] = "unset"]
    /\ pc' = [pc EXCEPT ![t] = IF IsCached(caption_pipeline) THEN "L118" ELSE "L74"]
    /\ UNCHANGED <<shared, image, devArg, first, second, made, passed, handleUsed,
                   result, response, escaped, error_msg, attempts, converts, infers,
                   counters>>

\* generate_caption: load_model returned False; the guidance message
LoadFailedReturn(t) ==
    /\ pc[t] = "L118"
    /\ LoadFailed(loaded[t])
    /\ response' = [response EXCEPT ![t] = LoadFailureMsg]
    /\ pc' = [pc EXCEPT ![t] = "done"]
    /\ LeaveLoadModel(t)
    /\ UNCHANGED <<shared, image, loaded, passed, handleUsed, result, escaped, error_msg,
                   converts, infers, counters>>

\* generate_caption: image.mode or image.convert('RGB') raises, the fault
\* text being one of `texts`
ConvertFailWith(t, texts) ==
    /\ pc[t] = "L118"
    /\ ~LoadFailed(loaded[t])
    /\ IF image[t] = None
       THEN /\ Fault(t, "convert", ModeAttrErrorText)
            /\ converts' = converts
       ELSE /\ NeedsConvert(image[t][1].mode)
            /\ converts' = [converts EXCEPT ![t] = @ + 1]
            /\ \E txt \in texts : Fault(t, "convert", txt)
    /\ LeaveLoadModel(t)
    /\ UNCHANGED <<shared, image, loaded, passed, handleUsed, result, infers,
                   counters>>

ConvertFail(t) == ConvertFailWith(t, FaultTexts)

\* generate_caption: the image, converted to RGB when its mode is not RGB,
\* is handed to self.caption_pipeline(image)
InferBegin(t) ==
    /\ pc[t] = "L118"
    /\ ~LoadFailed(loaded[t])
    /\ image[t] # None
    /\ LET img == image[t][1] IN
         IF NeedsConvert(img.mode)
         THEN /\ passed' = [passed EXCEPT ![t] = Some(Convert(img, "RGB"))]
              /\ converts' = [converts EXCEPT ![t] = @ + 1]
         ELSE /\ passed' = [passed EXCEPT ![t] = Some(img)]
              /\ converts' = converts
    /\ handleUsed' = [handleUsed EXCEPT ![t] = caption_pipeline]
    /\ IF caption_pipeline = None
       THEN /\ Fault(t, "infer", NotCallableText)
            /\ infers' = infers
       ELSE /\ infers' = [infers EXCEPT ![t] = @ + 1]
            /\ pc' = [pc EXCEPT ![t] = "L134w"]
            /\ UNCHANGED <<response, escaped, error_msg>>
    /\ LeaveLoadModel(t)
    /\ UNCHANGED <<shared, image, loaded, result, counters>>

\* generate_caption: the inference call returns or raises, its outcome being
\* one of `outs`; extraction
InferReturnWith(t, outs) ==
    /\ pc[t] = "L134w"
    /\ \E out \in outs :
         /\ result' = [result EXCEPT ![t] = out]
         /\ IF ExtractFault(out) # None
            THEN Fault(t, FaultSite(out), ExtractFault(out)[1])
            ELSE /\ response' = [response EXCEPT ![t] = Extract(out)]
                 /\ pc' = [pc EXCEPT ![t] = "done"]
                 /\ UNCHANGED <<escaped, error_msg>>
    /\ UNCHANGED <<shared, image, loaded, devArg, first, second, made, passed,
                   handleUsed, attempts, converts, infers, counters>>

InferReturn(t) == InferReturnWith(t, InferOutcomes)

\* the response is handed to the serving layer; the thread is free again
Return(t) ==
    /\ pc[t] = "done"
    /\ pc' = [pc EXCEPT ![t] = "idle"]
    /\ image' = [image EXCEPT ![t] = None]
    /\ loaded' = [loaded EXCEPT ![t] = "unset"]
    /\ passed' = [passed EXCEPT ![t] = None]
    /\ handleUsed' = [handleUsed EXCEPT ![t] = None]
    /\ result' = [result EXCEPT ![t] = NoResult]
    /\ response' = [response EXCEPT ![t] = <<>>]
    /\ escaped' = [escaped EXCEPT ![t] = FALSE]
    /\ error_msg' = [error_msg EXCEPT ![t] = None]
    /\ converts' = [converts EXCEPT ![t] = 0]
    /\ infers' = [infers EXCEPT ![t] = 0]
    /\ LeaveLoadModel(t)
    /\ UNCHANGED <<shared, counters>>

\* every step of a request between its submission and its response
Step(t) ==
    \/ ConstructBegin(t)
    \/ ConstructOk(t)
    \/ ConstructFail(t)
    \/ FallbackOk(t)
    \/ FallbackFail(t)
    \/ SetDevice(t)
    \/ LoadFailedReturn(t)
    \/ ConvertFail(t)
    \/ InferBegin(t)
    \/ InferReturn(t)

\* Return touches nothing but the returning worker's own frame, so it is
\* taken before any other step: no behaviour of the shared state is lost
NoneReturning == \A u \in Workers : pc[u] # "done"

\* requests of one process, handled concurrently by the worker threads
Next ==
    \/ \E t \in Workers : Return(t)
    \/ NoneReturning /\ \E t \in Workers, img \in Images : Submit(t, img)
    \/ NoneReturning /\ \E t \in Workers : Step(t)

Spec == Init /\ [][Next]_vars

\* the same process when the serving layer hands it one request at a time
SubmitSeq(t, img) ==
    /\ \A u \in Workers : pc[u] = "idle"
    /\ Submit(t, img)

NextSeq ==
    \/ \E t \in Workers : Return(t)
    \/ \E t \in Workers, img \in Images : SubmitSeq(t, img)
    \/ NoneReturning /\ \E t \in Workers : Step(t)

SpecSeq == Init /\ [][NextSeq]_vars

\* one request at a time, every call of a collaborator returning or raising
\* and the worker thread getting to run: a step of a request that stays
\* possible is taken
SpecSeqFair ==
    /\ SpecSeq
    /\ \A t \in Workers : WF_vars(Return(t))
    /\ \A t \in Workers : WF_vars(NoneReturning /\ Step(t))

\* one request at a time again, the collaborators ranging over every fault
\* text and every shape of result
StepText(t) ==
    \/ ConstructBegin(t)
    \/ ConstructOk(t)
    \/ ConstructFail(t)
    \/ FallbackOk(t)
    \/ FallbackFail(t)
    \/ SetDevice(t)
    \/ LoadFailedReturn(t)
    \/ ConvertFailWith(t, AllFaultTexts)
    \/ InferBegin(t)
    \/ InferReturnWith(t, AllInferOutcomes)

NextText ==
    \/ \E t \in Workers : Return(t)
    \/ \E t \in Workers, img \in Images : SubmitSeq(t, img)
    \/ NoneReturning /\ \E t \in Workers : StepText(t)

SpecText == Init /\ [][NextText]_vars

\* ------------------------------------------------------------------ claims
AtLoadReturn(t) == pc[t] = "L118"

\* a load_model call whose first pipeline() ran on the GPU and raised
GpuFailed(t) == AtLoadReturn(t) /\ devArg[t] = GPU /\ first[t] = "fail"

\* C1: concurrent first-time callers of load_model cause exactly one
\* construction (none of them failing) and all run inference on the same
\* handle.  The code has no lock around the check and the construction.
C1_SingleConstruction ==
    /\ failures = 0 => constructCalls <= 1
    /\ \A t, u \in Workers :
         pc[t] = "L134w" /\ pc[u] = "L134w" => handleUsed[t] = handleUsed[u]

\* C2: with one request at a time, once a handle is cached no later step
\* replaces it or calls the constructor, a later load_model returns True,
\* and without a failure the constructor has run exactly once.
C2_CachedHandleReused ==
    /\ [][caption_pipeline # None =>
            /\ caption_pipeline' = caption_pipeline
            /\ constructCalls' = constructCalls]_vars
    /\ [](\A t \in Workers :
            AtLoadReturn(t) /\ caption_pipeline # None => loaded[t] = "True")
    /\ [](failures = 0 /\ caption_pipeline # None => constructCalls = 1)

C2_Witness ==
    \E t \in Workers :
        /\ AtLoadReturn(t) /\ loaded[t] = "True" /\ attempts[t] = 0
        /\ caption_pipeline # None /\ constructCalls = 1 /\ failures = 0
        /\ requests >= 2

\* C3: a load_model call that starts on the GPU, fails there and does not
\* fail on the CPU returns True with the CPU handle it built cached and
\* self.device = CPU.
C3_FallbackSucceeds ==
    \A t \in Workers :
        GpuFailed(t) /\ second[t] # "fail" =>
            /\ second[t] = "ok"
            /\ loaded[t] = "True"
            /\ made[t] # None
            /\ caption_pipeline = made[t]
            /\ caption_pipeline[1].device = CPU
            /\ device = CPU

C3_Witness ==
    \E t \in Workers : GpuFailed(t) /\ second[t] = "ok" /\ loaded[t] = "True"

\* C4 as stated: after a load_model call whose GPU construction failed, the
\* CPU retry has run and self.device is CPU, whether the retry succeeded or
\* not.
C4_AlwaysSwitchesToCPU ==
    \A t \in Workers : GpuFailed(t) => second[t] # "none" /\ device = CPU

\* C4 amended: the retry runs once when self.device is still the GPU as the
\* failure is handled; self.device becomes CPU only after the retry
\* succeeded; a failed retry leaves it as it was (the GPU unless another
\* request's successful fallback, which cached a handle, switched it).
C4_SwitchOnlyAfterRetrySucceeds ==
    \A t \in Workers :
        GpuFailed(t) =>
            /\ second[t] \in {"none", "ok", "fail"}
            /\ second[t] = "none" =>
                 attempts[t] = 1 /\ device = CPU /\ loaded[t] = "False"
            /\ second[t] = "ok" =>
                 attempts[t] = 2 /\ device = CPU /\ loaded[t] = "True"
            /\ second[t] = "fail" =>
                 /\ attempts[t] = 2
                 /\ loaded[t] = "False"
                 /\ caption_pipeline = None => device = GPU

C4_Witness ==
    \E t \in Workers : GpuFailed(t) /\ second[t] = "fail" /\ device = GPU

\* C5: self.device never goes from CPU back to the GPU.
C5_NeverBackToGPU == [][device = CPU => device' = CPU]_vars

C5_Witness ==
    \E t \in Workers : GpuFailed(t) /\ second[t] = "ok" /\ device = CPU

\* C6: with one request at a time, a load_model call makes at most two
\* pipeline() calls, exactly one when it starts with self.device = CPU; when
\* it returns False no handle is cached, and the next call constructs again.
C6_BoundedAttempts ==
    /\ [](\A t \in Workers :
            /\ attempts[t] <= 2
            /\ AtLoadReturn(t) /\ first[t] # "none" /\ devArg[t] = CPU =>
                 attempts[t] = 1
            /\ AtLoadReturn(t) /\ loaded[t] = "False" =>
                 /\ caption_pipeline = None
                 /\ first[t] = "fail"
                 /\ attempts[t] = (IF second[t] = "fail" THEN 2 ELSE 1))
    /\ [][\A t \in Workers :
            (pc[t] = "idle" /\ pc'[t] # "idle" /\ image'[t] # None
                /\ caption_pipeline = None)
            => pc'[t] = "L74"]_vars

C6_Witness ==
    \E t \in Workers :
        /\ pc[t] = "L74w" /\ first[t] = "running"
        /\ failures >= 1 /\ caption_pipeline = None /\ requests >= 2

\* C7: generate_caption(None) returns the upload prompt, reaches neither
\* load_model nor the inference call, and leaves the cached handle and
\* self.device as they are.
C7_NullImagePrompt ==
    /\ [](\A t \in Workers :
            image[t] = None /\ pc[t] # "idle" =>
                /\ pc[t] = "done"
                /\ response[t] = UploadPrompt
                /\ loaded[t] = "unset"
                /\ attempts[t] = 0 /\ converts[t] = 0 /\ infers[t] = 0
                /\ ~escaped[t])
    /\ [][\A t \in Workers :
            ((pc[t] = "idle" /\ pc'[t] # "idle" /\ image'[t] = None)
                \/ (pc[t] = "done" /\ pc'[t] = "idle" /\ image[t] = None))
            => UNCHANGED <<caption_pipeline, device, constructCalls, built>>]_vars

C7_Witness ==
    \E t, u \in Workers :
        /\ pc[t] = "done" /\ image[t] = None /\ response[t] = UploadPrompt
        /\ pc[u] = "L74w"

\* C8: every finished request has returned a string; no fault of the
\* constructor, the conversion, the inference call or the extraction has
\* left generate_caption.
C8_AlwaysAString ==
    \A t \in Workers :
        /\ ~escaped[t]
        /\ pc[t] = "done" =>
             /\ response[t] # <<>>
             /\ \A i \in DOMAIN response[t] : response[t][i] \in STRING

C8_Witness ==
    \E t \in Workers :
        /\ pc[t] = "done" /\ result[t].kind = "raise" /\ response[t] # <<>>
        /\ failures >= 1

\* C9: a request with an image whose load_model returned False answers with
\* the load-failure guidance and has made no conversion and no inference
\* call.
C9_LoadFailureIsTerminal ==
    \A t \in Workers :
        loaded[t] = "False" =>
            /\ pc[t] \in {"L118", "done"}
            /\ converts[t] = 0 /\ infers[t] = 0
            /\ passed[t] = None /\ handleUsed[t] = None /\ result[t] = NoResult
            /\ pc[t] = "done" => response[t] = LoadFailureMsg /\ image[t] # None

C9_Witness ==
    \E t \in Workers :
        pc[t] = "done" /\ loaded[t] = "False" /\ response[t] = LoadFailureMsg

\* C10: the image handed to the inference call has mode RGB: converted when
\* the input's mode is not RGB, the input itself when it is.
C10_InferenceGetsRGB ==
    \A t \in Workers :
        infers[t] > 0 =>
            /\ image[t] # None /\ passed[t] # None
            /\ passed[t][1].mode = "RGB"
            /\ IF image[t][1].mode = "RGB"
               THEN passed[t] = image[t] /\ converts[t] = 0
               ELSE passed[t][1].converted /\ converts[t] = 1

C10_Witness ==
    \E t \in Workers :
        /\ infers[t] > 0 /\ image[t] # None /\ passed[t] # None
        /\ image[t][1].mode # "RGB" /\ passed[t][1].mode = "RGB"


\* two characters that are the same letter in either case, or equal
SameLetter(a, b) ==
    \/ a = b
    \/ \E k \in 1..26 : {a, b} = {UpperCase[k], LowerCase[k]}

\* the needle occurs in s when letter case is disregarded
ContainsAnyCase(s, needle) ==
    \E i \in 1..(Len(s) - Len(needle) + 1) :
        \A j \in 1..Len(needle) : SameLetter(s[i + j - 1], needle[j])

\* the inference call of request t raised and the request has its response
InferenceRaised(t) == pc[t] = "done" /\ result[t].kind = "raise"

\* C11: when the inference call raises, the response is the out-of-memory
\* guidance if the fault text contains "out of memory" in any letter case,
\* else the connectivity guidance if it contains "connection" in any letter
\* case, else the generic processing-error message followed by the original
\* fault text.
C11_InferenceFaultClassified ==
    \A t \in Workers :
        InferenceRaised(t) =>
            LET txt == result[t].text IN
            /\ ~escaped[t]
            /\ ContainsAnyCase(txt, OutOfMemoryNeedle) => response[t] = OutOfMemoryMsg
            /\ (~ContainsAnyCase(txt, OutOfMemoryNeedle)
                  /\ ContainsAnyCase(txt, ConnectionNeedle)) => response[t] = NetworkMsg
            /\ (~ContainsAnyCase(txt, OutOfMemoryNeedle)
                  /\ ~ContainsAnyCase(txt, ConnectionNeedle)) =>
                    response[t] = ProcessingErrorPrefix \o txt

C11_Witness ==
    \E t \in Workers :
        /\ InferenceRaised(t)
        /\ result[t].text = TextConnRefused
        /\ response[t] = NetworkMsg

HasPrefix(s, p) == Len(s) >= Len(p) /\ SubSeq(s, 1, Len(p)) = p

\* the inference call of request t returned an empty sequence of candidates
EmptyResult(t) == pc[t] = "done" /\ result[t] = Returned(<<>>)

\* C12: when the inference call returns an empty sequence without raising,
\* the response is the "Could not generate a caption" message, which is not
\* a success-prefixed caption and none of the three fault messages.
C12_EmptyResultMessage ==
    \A t \in Workers :
        EmptyResult(t) =>
            /\ ~escaped[t]
            /\ error_msg[t] = None
            /\ response[t] = CouldNotMsg
            /\ ~HasPrefix(response[t], SuccessMarker)
            /\ response[t] \notin {OutOfMemoryMsg, NetworkMsg}
            /\ ~HasPrefix(response[t], ProcessingErrorPrefix)

C12_Witness ==
    \E t \in Workers :
        EmptyResult(t) /\ infers[t] = 1 /\ response[t] = CouldNotMsg

\* b is s without its leading and trailing whitespace: a slice of s that
\* neither starts nor ends with whitespace, all of s outside it whitespace
IsTrimOf(b, s) ==
    \E i \in 1..(Len(s) + 1), j \in 0..Len(s) :
        /\ b = SubSeq(s, i, j)
        /\ \A k \in 1..(i - 1) : s[k] \in Whitespace
        /\ \A k \in (j + 1)..Len(s) : s[k] \in Whitespace
        /\ b # <<>> => (b[1] \notin Whitespace /\ b[Len(b)] \notin Whitespace)

\* the inference call of request t returned at least one candidate, the
\* first of them carrying a generated text
HasCandidates(t) ==
    /\ pc[t] = "done"
    /\ result[t].kind = "value"
    /\ Len(result[t].val) >= 1
    /\ result[t].val[1].key = "generated_text"
    /\ result[t].val[1].isStr

\* C13: when the inference call returns one or more candidates, the response
\* is the success marker followed by the first candidate's generated text
\* without its leading and trailing whitespace, interior characters kept;
\* the candidates after the first play no part.
C13_FirstCandidateTrimmed ==
    \A t \in Workers :
        HasCandidates(t) =>
            /\ ~escaped[t]
            /\ error_msg[t] = None
            /\ HasPrefix(response[t], SuccessMarker)
            /\ IsTrimOf(SubSeq(response[t], Len(SuccessMarker) + 1, Len(response[t])),
                        result[t].val[1].text)

C13_Witness ==
    \E t \in Workers :
        /\ HasCandidates(t)
        /\ result[t].val = <<Dog, Cat>>
        /\ response[t] = SuccessMarker \o <<"a", " ", "d", "o", "g", " ", "r", "u", "n", "n", "i", "n", "g">>

\* the categories a response falls in
Categories(r) ==
    {c \in {"memory", "network", "processing"} :
        \/ c = "memory" /\ r = OutOfMemoryMsg
        \/ c = "network" /\ r = NetworkMsg
        \/ c = "processing" /\ HasPrefix(r, ProcessingErrorPrefix)}

\* the category of a fault text: memory before network before processing
CategoryOf(txt) ==
    IF ContainsAnyCase(txt, OutOfMemoryNeedle) THEN "memory"
    ELSE IF ContainsAnyCase(txt, ConnectionNeedle) THEN "network"
    ELSE "processing"

\* where the fault of request t was raised
FaultRaisedAt(t) ==
    IF infers[t] = 0 THEN "convert"
    ELSE IF result[t].kind = "raise" THEN "infer"
    ELSE "extract"

\* the except branch of generate_caption handled a fault of request t
FaultHandled(t) == pc[t] = "done" /\ error_msg[t] # None

\* C18: a fault handled inside the request is put in exactly one category,
\* "out of memory" taking precedence over "connection" when the text holds
\* both (any letter case), and a fault of the pixel-format conversion or of
\* the result extraction is classified exactly as a fault of the inference
\* call is.
C18_OneCategoryWithPrecedence ==
    \A t \in Workers :
        FaultHandled(t) =>
            LET txt == error_msg[t][1] IN
            /\ ~escaped[t]
            /\ Categories(response[t]) = {CategoryOf(txt)}
            /\ (ContainsAnyCase(txt, OutOfMemoryNeedle)
                  /\ ContainsAnyCase(txt, ConnectionNeedle)) =>
                    (response[t] = OutOfMemoryMsg /\ response[t] # NetworkMsg)
            /\ FaultRaisedAt(t) = "infer" => txt = result[t].text
            /\ FaultRaisedAt(t) = "extract" => txt = ExtractFault(result[t])[1]

C18_Witness ==
    \E t \in Workers :
        /\ FaultHandled(t)
        /\ FaultRaisedAt(t) = "convert"
        /\ error_msg[t] = Some(TextBoth)
        /\ response[t] = OutOfMemoryMsg

\* C14: once a handle is cached, no step of any request replaces or clears
\* it or changes the device, and at most one handle is ever created.  In
\* the code a load_model call that passed the cache check before the handle
\* was stored stores its own handle over it, and line 95 changes the device
\* after line 90 has stored the CPU handle.
C14_HandleAndDeviceFrozen ==
    [][/\ caption_pipeline # None =>
            (caption_pipeline' = caption_pipeline /\ device' = device)
       /\ built' <= 1]_vars

\* a load_model call is between storing the CPU handle (line 90) and
\* setting the device (line 95)
StoringFallback == \E t \in Workers : pc[t] = "L95"

\* C15: whenever a handle is cached and visible to requests, the device it
\* was constructed on is the current device, and the handle an inference
\* runs on is bound to the current device.  The two statements of the
\* fallback that store the handle and set the device are taken as one
\* here; the property still fails when load_model calls overlap.
C15_HandleBoundToDevice ==
    /\ (caption_pipeline # None /\ ~StoringFallback) =>
            caption_pipeline[1].device = device
    /\ \A t \in Workers :
            (pc[t] = "L134w" /\ ~StoringFallback) =>
                (handleUsed[t] # None /\ handleUsed[t][1].device = device)

\* C17: load_model reports success only while caption_pipeline is set, the
\* inference call is made only on a handle that is not null, and in no
\* interleaving of requests does a request call a null handle.
C17_InferenceOnlyWithHandle ==
    \A t \in Workers :
        /\ loaded[t] = "True" => caption_pipeline # None
        /\ pc[t] = "L134w" => (caption_pipeline # None /\ handleUsed[t] # None)
        /\ infers[t] > 0 => handleUsed[t] # None
        /\ error_msg[t] # Some(NotCallableText)

\* a request is inside the inference call while another one is still
\* inside pipeline()
C17_Witness ==
    \E t, u \in Workers :
        /\ pc[t] = "L134w"
        /\ handleUsed[t] # None
        /\ pc[u] \in {"L74w", "L90w"}

\* request t is being handled and has no response yet
InProgress(t) == pc[t] \notin {"idle", "done"}

\* request t has produced its response
Responded(t) == pc[t] = "done" /\ response[t] # <<>> /\ ~escaped[t]

\* C16: when every collaborator call returns or raises, every request
\* comes to produce a response, exactly one, after at most two
\* constructions and at most one inference call.
C16_EveryRequestResponds ==
    /\ \A t \in Workers : InProgress(t) ~> Responded(t)
    /\ [](\A t \in Workers :
            /\ attempts[t] <= 2
            /\ infers[t] <= 1
            /\ pc[t] = "done" => Responded(t)
            /\ InProgress(t) => response[t] = <<>>)
    /\ [][\A t \in Workers :
            response[t] # <<>> => (response'[t] = response[t] \/ pc'[t] = "idle")]_vars

\* the first request made both constructions and the inference call
C16_Witness ==
    \E t \in Workers :
        /\ Responded(t)
        /\ requests = 1 /\ constructCalls = 2 /\ failures = 1
        /\ infers[t] = 1 /\ result[t].kind = "value"

====
